---------------------------- MODULE Spec2Model ----------------------------
(***************************************************************************)
(* Model of the phase1 failure-analysis pipeline:                          *)
(*   GitHubClient._get_jobs / _attach_logs_to_steps   (LogSegmenter)       *)
(*   LogParser.parse_step_logs / _extract_error_context (ErrorExtractor)   *)
(*   LLMAnalyzer._build_analysis_context               (ContextBuilder)    *)
(*   LLMAnalyzer._parse_llm_response                   (ResponseInterpreter)*)
(*                                                                         *)
(* A Python str is a sequence of tokens.  "\n" is the newline character,   *)
(* " " a whitespace character; every other token stands for a fragment of  *)
(* text without newline (a marker, an error phrase, a stack frame, a JSON  *)
(* document, ...).  An Optional value is <<>> (None) or <<v>>.             *)
(***************************************************************************)
EXTENDS Integers, Sequences, FiniteSets, TLC

VARIABLES
    pc,            \* which operation has run
    job,           \* the JobRun built by one iteration of _get_jobs
    logs,          \* the text _get_job_logs returned for that job
    step,          \* the StepRun handed to parse_step_logs
    errors,        \* the list parse_step_logs returned
    workflow_run,  \* the WorkflowRun handed to analyze_workflow_failure
    failed_jobs,   \* analyze_workflow_failure's locals
    failed_steps,
    all_errors,
    context,       \* the document _build_analysis_context returned
    llm_response,  \* the text _query_llm returned
    outcome        \* what _parse_llm_response did: a return value or a raise

segVars == <<job, logs>>
parseVars == <<step, errors>>
analyzeVars == <<workflow_run, failed_jobs, failed_steps, all_errors, context,
                 llm_response, outcome>>
vars == <<pc, segVars, parseVars, analyzeVars>>

NL == "\n"
SP == " "
None == <<>>
Some(v) == <<v>>

Min(a, b) == IF a < b THEN a ELSE b
Max(a, b) == IF a > b THEN a ELSE b

(* Python slice s[lo:hi] with 0 <= lo, 0 <= hi (0-based, hi exclusive). *)
Slice(s, lo, hi) == SubSeq(s, lo + 1, Min(hi, Len(s)))

(* The sequences over S of length at most n. *)
SeqsUpTo(S, n) == UNION {[1..k -> S] : k \in 0..n}

(* str.split('\n'): the maximal newline-free pieces, in order; the piece   *)
(* that starts at position `from` ends before the next newline.            *)
RECURSIVE SplitFrom(_, _)
SplitFrom(s, from) ==
    LET nls == {i \in from..Len(s) : s[i] = NL}
    IN  IF nls = {} THEN <<SubSeq(s, from, Len(s))>>
        ELSE LET n == CHOOSE i \in nls : \A j \in nls : i <= j
             IN  <<SubSeq(s, from, n - 1)>> \o SplitFrom(s, n + 1)

Split(s) == SplitFrom(s, 1)

(* '\n'.join(lines) *)
RECURSIVE Join(_)
Join(lines) ==
    IF Len(lines) = 0 THEN <<>>
    ELSE IF Len(lines) = 1 THEN lines[1]
    ELSE lines[1] \o <<NL>> \o Join(Tail(lines))

(* line.strip() is empty: the line holds whitespace only. *)
IsBlank(line) == \A i \in 1..Len(line) : line[i] = SP

-----------------------------------------------------------------------------
(* GitHubClient._attach_logs_to_steps                                       *)

GROUP == "##[group]"

IsStepMarker(line) == \E i \in 1..Len(line) : line[i] = GROUP

(* Faulty variant of AttachLoop: the buffer is not emptied at a step marker. *)
RECURSIVE AttachLoopKeepsBuffer(_, _, _, _, _)
AttachLoopKeepsBuffer(steps, lines, k, idx, buf) ==
    IF k > Len(lines)
    THEN IF Len(buf) > 0 /\ idx > 0
         THEN [steps EXCEPT ![idx].log_content = Some(Join(buf))]
         ELSE steps
    ELSE IF IsStepMarker(lines[k]) /\ idx < Len(steps)
         THEN AttachLoopKeepsBuffer(
                IF Len(buf) > 0 /\ idx > 0
                THEN [steps EXCEPT ![idx].log_content = Some(Join(buf))]
                ELSE steps,
                lines, k + 1, idx + 1, Append(buf, lines[k]))
         ELSE AttachLoopKeepsBuffer(steps, lines, k + 1, idx, Append(buf, lines[k]))

(* Faulty variant of AttachLoop: a marker met after the last step still     *)
(* starts a new buffer.                                                     *)
RECURSIVE AttachLoopResetsOnEveryMarker(_, _, _, _, _)
AttachLoopResetsOnEveryMarker(steps, lines, k, idx, buf) ==
    IF k > Len(lines)
    THEN IF Len(buf) > 0 /\ idx > 0
         THEN [steps EXCEPT ![idx].log_content = Some(Join(buf))]
         ELSE steps
    ELSE IF IsStepMarker(lines[k])
         THEN AttachLoopResetsOnEveryMarker(
                IF Len(buf) > 0 /\ idx > 0
                THEN [steps EXCEPT ![idx].log_content = Some(Join(buf))]
                ELSE steps,
                lines, k + 1, Min(idx + 1, Len(steps)), <<lines[k]>>)
         ELSE AttachLoopResetsOnEveryMarker(steps, lines, k + 1, idx,
                                            Append(buf, lines[k]))

(* The body of the for loop over logs.split('\n'), from line k on, with the  *)
(* loop's locals current_step_idx (idx) and current_log_buffer (buf); then   *)
(* the final attachment after the loop.                                      *)
RECURSIVE AttachLoop(_, _, _, _, _)
AttachLoop(steps, lines, k, idx, buf) ==
    IF k > Len(lines)
    THEN IF Len(buf) > 0 /\ idx > 0
         THEN [steps EXCEPT ![idx].log_content = Some(Join(buf))]
         ELSE steps
    ELSE IF IsStepMarker(lines[k]) /\ idx < Len(steps)
         THEN AttachLoop(
                IF Len(buf) > 0 /\ idx > 0
                THEN [steps EXCEPT ![idx].log_content = Some(Join(buf))]
                ELSE steps,
                lines, k + 1, idx + 1, <<lines[k]>>)
         ELSE AttachLoop(steps, lines, k + 1, idx, Append(buf, lines[k]))

AttachLogsToSteps(steps, text) == AttachLoop(steps, Split(text), 1, 0, <<>>)


-----------------------------------------------------------------------------
(* LogParser: ERROR_PATTERNS and STACK_TRACE_PATTERNS.                      *)
(*                                                                         *)
(* A regular expression is modelled by the tokens it matches.  Every error *)
(* phrase token below is a complete match of the patterns listed for it;   *)
(* the search is case-insensitive, so a phrase that matches the generic    *)
(* 'Error: ' pattern matches the 'error: ' build pattern too, and a        *)
(* '<Name>Error: ' phrase matches both of them as well.                    *)

ERROR_PATTERNS ==
    <<"python_error", "test_failure", "build_error",
      "npm_error", "typescript_error", "generic_error">>

PY_PHRASE == "ValueError: m"
TEST_PHRASE == "FAILED t::n"
ERR_PHRASE == "error: m"
NPM_PHRASE == "npm ERR! m"
TS_PHRASE == "TS2304: m"

(* re.search(pattern, <token>, re.IGNORECASE) succeeds. *)
TokenMatches(tok, error_type) ==
    CASE tok = PY_PHRASE   -> error_type \in {"python_error", "build_error", "generic_error"}
      [] tok = ERR_PHRASE  -> error_type \in {"build_error", "generic_error"}
      [] tok = TEST_PHRASE -> error_type = "test_failure"
      [] tok = NPM_PHRASE  -> error_type = "npm_error"
      [] tok = TS_PHRASE   -> error_type = "typescript_error"
      [] OTHER -> FALSE

(* re.search(pattern, line, re.IGNORECASE) succeeds. *)
LineMatches(line, error_type) ==
    \E i \in 1..Len(line) : TokenMatches(line[i], error_type)

MatchesAnyPattern(line) ==
    \E p \in 1..Len(ERROR_PATTERNS) : LineMatches(line, ERROR_PATTERNS[p])

(* match.group(0): the leftmost match of the pattern.  The patterns that    *)
(* end in '.+' run to the end of the line; the test pattern ends with the   *)
(* test name.                                                               *)
MatchGroup0(line, error_type) ==
    LET i == CHOOSE k \in 1..Len(line) :
                 /\ TokenMatches(line[k], error_type)
                 /\ \A m \in 1..(k - 1) : ~TokenMatches(line[m], error_type)
    IN  IF error_type = "test_failure" THEN <<line[i]>>
        ELSE SubSeq(line, i, Len(line))

FRAME_PY == "File \"a.py\", line 3"
FRAME_GENERIC == "lib/b.js:7"
FrameTokens == {FRAME_PY, FRAME_GENERIC}

FrameFile(tok) == IF tok = FRAME_PY THEN "a.py" ELSE "lib/b.js"
FrameLine(tok) == IF tok = FRAME_PY THEN 3 ELSE 7

(* The number of leading whitespace characters of the line. *)
LeadingSpaces(line) ==
    IF IsBlank(line) THEN Len(line)
    ELSE (CHOOSE k \in 1..Len(line) :
              line[k] # SP /\ \A m \in 1..(k - 1) : line[m] = SP) - 1

(* re.match(pattern, line) succeeds for one of STACK_TRACE_PATTERNS: each    *)
(* pattern is '^\s+' followed by the frame text.                             *)
IsStackFrame(line) ==
    /\ ~IsBlank(line)
    /\ LeadingSpaces(line) >= 1
    /\ line[LeadingSpaces(line) + 1] \in FrameTokens

FrameToken(line) == line[LeadingSpaces(line) + 1]

(* line.strip() *)
RECURSIVE StripRight(_)
StripRight(line) ==
    IF Len(line) > 0 /\ line[Len(line)] = SP
    THEN StripRight(SubSeq(line, 1, Len(line) - 1))
    ELSE line

Strip(line) ==
    IF IsBlank(line) THEN <<>>
    ELSE StripRight(SubSeq(line, LeadingSpaces(line) + 1, Len(line)))

-----------------------------------------------------------------------------
(* LogParser._extract_error_context                                         *)

Lookahead == 20
ContextBefore == 5
ContextAfter == 10

(* Faulty variant of LookAhead: every frame overwrites the primary file and line. *)
RECURSIVE LookAheadLastFrame(_, _, _, _)
LookAheadLastFrame(lines, i, stop, acc) ==
    IF i >= stop THEN acc
    ELSE
        LET line == lines[i + 1]
            acc1 == IF IsStackFrame(line)
                    THEN [stack_trace |-> Append(acc.stack_trace, Strip(line)),
                          file_path   |-> Some(FrameFile(FrameToken(line))),
                          line_number |-> Some(FrameLine(FrameToken(line)))]
                    ELSE acc
        IN  IF IsBlank(line) \/ MatchesAnyPattern(line)
            THEN acc1
            ELSE LookAheadLastFrame(lines, i + 1, stop, acc1)

(* The look-ahead loop, at 0-based line index i, below the bound `stop` =   *)
(* min(error_line_idx + 20, len(lines)); acc holds file_path, line_number   *)
(* and stack_trace.                                                         *)
RECURSIVE LookAhead(_, _, _, _)
LookAhead(lines, i, stop, acc) ==
    IF i >= stop THEN acc
    ELSE
        LET line == lines[i + 1]
            acc1 == IF IsStackFrame(line)
                    THEN [stack_trace |-> Append(acc.stack_trace, Strip(line)),
                          file_path   |-> IF acc.file_path = None
                                          THEN Some(FrameFile(FrameToken(line)))
                                          ELSE acc.file_path,
                          line_number |-> IF acc.file_path = None
                                          THEN Some(FrameLine(FrameToken(line)))
                                          ELSE acc.line_number]
                    ELSE acc
        IN  IF IsBlank(line) \/ MatchesAnyPattern(line)
            THEN acc1
            ELSE LookAhead(lines, i + 1, stop, acc1)

(* Non-blank lines of a window, stripped. *)
RECURSIVE StripNonBlank(_)
StripNonBlank(ls) ==
    IF Len(ls) = 0 THEN <<>>
    ELSE (IF IsBlank(ls[1]) THEN <<>> ELSE <<Strip(ls[1])>>)
         \o StripNonBlank(Tail(ls))

(* Faulty variant of ExtractErrorContext: the window's end is inclusive.    *)
ExtractErrorContextInclusiveEnd(lines, error_line_idx, error_type) ==
    LET found == LookAhead(lines, error_line_idx + 1,
                           Min(error_line_idx + Lookahead, Len(lines)),
                           [stack_trace |-> <<>>, file_path |-> None,
                            line_number |-> None])
        context_start == Max(0, error_line_idx - ContextBefore)
        context_end == Min(Len(lines), error_line_idx + ContextAfter + 1)
    IN  [error_message |-> MatchGroup0(lines[error_line_idx + 1], error_type),
         error_type |-> error_type,
         line_number |-> found.line_number,
         file_path |-> found.file_path,
         stack_trace |-> found.stack_trace,
         surrounding_context |->
             StripNonBlank(Slice(lines, context_start, context_end))]

(* error_line_idx is 0-based, as in the code. *)
ExtractErrorContext(lines, error_line_idx, error_type) ==
    LET found == LookAhead(lines, error_line_idx + 1,
                           Min(error_line_idx + Lookahead, Len(lines)),
                           [stack_trace |-> <<>>, file_path |-> None,
                            line_number |-> None])
        context_start == Max(0, error_line_idx - ContextBefore)
        context_end == Min(Len(lines), error_line_idx + ContextAfter)
    IN  [error_message |-> MatchGroup0(lines[error_line_idx + 1], error_type),
         error_type |-> error_type,
         line_number |-> found.line_number,
         file_path |-> found.file_path,
         stack_trace |-> found.stack_trace,
         surrounding_context |->
             StripNonBlank(Slice(lines, context_start, context_end))]

-----------------------------------------------------------------------------
(* LogParser.parse_step_logs                                                *)

(* Faulty variant of FirstPattern: the last matching pattern of the table wins. *)
LastPattern(line) ==
    ERROR_PATTERNS[CHOOSE p \in 1..Len(ERROR_PATTERNS) :
                       /\ LineMatches(line, ERROR_PATTERNS[p])
                       /\ \A q \in (p + 1)..Len(ERROR_PATTERNS) :
                             ~LineMatches(line, ERROR_PATTERNS[q])]

(* The first pattern, in table order, that matches the line. *)
FirstPattern(line) ==
    ERROR_PATTERNS[CHOOSE p \in 1..Len(ERROR_PATTERNS) :
                       /\ LineMatches(line, ERROR_PATTERNS[p])
                       /\ \A q \in 1..(p - 1) : ~LineMatches(line, ERROR_PATTERNS[q])]

RECURSIVE ScanLines(_, _)
ScanLines(lines, i) ==
    IF i >= Len(lines) THEN <<>>
    ELSE (IF MatchesAnyPattern(lines[i + 1])
          THEN <<ExtractErrorContext(lines, i, FirstPattern(lines[i + 1]))>>
          ELSE <<>>)
         \o ScanLines(lines, i + 1)

ParseStepLogs(s) ==
    IF s.log_content = None \/ s.log_content = Some(<<>>) \/ s.conclusion # "failure"
    THEN <<>>
    ELSE ScanLines(Split(s.log_content[1]), 0)

-----------------------------------------------------------------------------
(* GitHubClient._get_jobs: one iteration of the loop over jobs_data.        *)

MaxSteps == 2
MaxLogLen == 5

Conclusions == {"success", "failure"}
LogChars == {NL, GROUP, "x", "y"}

StepName(i) == <<"step", ToString(i)>>

(* StepRun(...): a step as constructed from step_data; log_content unset. *)
NewStep(i, conclusion) ==
    [name |-> StepName(i), conclusion |-> conclusion, log_content |-> None]

(* Faulty variant of FetchesLogs: logs are fetched for every job. *)
FetchesLogsAlways(conclusion) == TRUE

(* "Fetch logs for failed jobs" *)
FetchesLogs(conclusion) == conclusion = "failure"

LogTexts == SeqsUpTo(LogChars, MaxLogLen)
StepConclusions == SeqsUpTo(Conclusions, MaxSteps)

GetJob ==
    /\ pc = "start"
    /\ \E jc \in Conclusions, sc \in StepConclusions, text \in LogTexts :
        LET steps == [i \in 1..Len(sc) |-> NewStep(i, sc[i])]
        IN  /\ pc' = "jobs"
            /\ logs' = IF FetchesLogs(jc) THEN Some(text) ELSE None
            /\ job' = Some([name |-> <<"job">>,
                            conclusion |-> jc,
                            steps |-> IF FetchesLogs(jc)
                                      THEN AttachLogsToSteps(steps, text)
                                      ELSE steps])
            /\ UNCHANGED <<parseVars, analyzeVars>>

-----------------------------------------------------------------------------
(* parse_step_logs applied to one step.  The step's log is a few lines, a   *)
(* run of plain lines, and a few lines more, so that a stack frame can lie  *)
(* on either side of the end of the look-ahead window.                      *)

MaxHead == 1
MaxPad == 19
MaxTail == 2

PLAIN_LINE == <<"x">>
ParseLines ==
    { <<>>,                              \* blank
      <<PY_PHRASE>>,                     \* a named runtime error
      <<NPM_PHRASE, ERR_PHRASE>>,        \* two signatures on one line
      <<SP, FRAME_PY>>,                  \* stack frames
      <<SP, FRAME_GENERIC>>,
      <<SP, FRAME_GENERIC, ERR_PHRASE>>  \* a frame that also reports an error
    }

Pad(k) == [i \in 1..k |-> PLAIN_LINE]

(* Short runs, and runs that end around the look-ahead bound. *)
PadLens == {k \in 0..MaxPad : k <= 1 \/ k >= MaxPad - 2}

Heads == SeqsUpTo(ParseLines, MaxHead)
Tails == SeqsUpTo(ParseLines, MaxTail)

(* Steps the parser does not scan: no log, an empty log, or a conclusion   *)
(* other than failure.                                                     *)
SkippedInputs ==
    { [conclusion |-> c, log_content |-> None] : c \in Conclusions }
    \cup { [conclusion |-> "success", log_content |-> Some(Join(<<l>>))] : l \in ParseLines }

MakeStep(conclusion, log_content) ==
    [name |-> StepName(1), conclusion |-> conclusion, log_content |-> log_content]

(* Logs of distinct lines around one line m: `before` lines, m, the lines   *)
(* `mid`, then `after` lines, so that the context window of m can end on    *)
(* either side of the ends of the log.                                      *)
NumberedLine(j) == <<"line ", ToString(j)>>

WindowLog(before, m, mid, after) ==
    [j \in 1..(before + 1 + Len(mid) + after) |->
        IF j = before + 1 THEN m
        ELSE IF j > before + 1 /\ j <= before + 1 + Len(mid)
             THEN mid[j - before - 1]
             ELSE NumberedLine(j)]

BeforeLens == (ContextBefore - 1)..(ContextBefore + 1)
AfterLens == (ContextAfter - 2)..(ContextAfter + 1)
Mids == SeqsUpTo({<<>>, <<SP>>, <<SP, FRAME_PY>>}, 1)

WindowLogs ==
    { WindowLog(before, m, mid, after) :
        before \in BeforeLens, m \in ParseLines, mid \in Mids, after \in AfterLens }

(* The step parse_step_logs is called with. *)
IsParseInput(s) ==
    \/ \E head \in Heads, k \in PadLens, tail \in Tails :
          s = Some(MakeStep("failure", Some(Join(head \o Pad(k) \o tail))))
    \/ \E lines \in WindowLogs :
          s = Some(MakeStep("failure", Some(Join(lines))))
    \/ \E inp \in SkippedInputs :
          s = Some(MakeStep(inp.conclusion, inp.log_content))

ParseStep ==
    /\ pc = "start"
    /\ step # None
    /\ pc' = "parsed"
    /\ errors' = ParseStepLogs(step[1])
    /\ UNCHANGED <<step, segVars, analyzeVars>>

NextParse == ParseStep

-----------------------------------------------------------------------------
(* LLMAnalyzer._build_analysis_context                                      *)

ErrorLimit == 5
StackLimit == 10
ShaLength == 8

(* The lines emitted for one error; i is its 1-based number. *)
ErrorPart(i, error) ==
    << <<"### Error ", ToString(i)>>,
       <<"Type: ", error.error_type>>,
       <<"Message: ">> \o error.error_message >>
    \o (IF error.file_path # None
        THEN << <<"Location: ", error.file_path[1]>>
                \o (IF error.line_number # None /\ error.line_number[1] # 0
                    THEN <<":", ToString(error.line_number[1])>>
                    ELSE <<>>) >>
        ELSE <<>>)
    \o (IF Len(error.stack_trace) > 0
        THEN << <<"Stack trace:">> >>
             \o [n \in 1..Min(StackLimit, Len(error.stack_trace)) |->
                    <<"  ">> \o error.stack_trace[n]]
        ELSE <<>>)
    \o << <<>> >>

RECURSIVE ErrorParts(_, _)
ErrorParts(errs, i) ==
    IF i > Len(errs) THEN <<>>
    ELSE ErrorPart(i, errs[i]) \o ErrorParts(errs, i + 1)

(* Faulty variant of BuildAnalysisContext: every error is embedded. *)
BuildAnalysisContextUncapped(run, fjobs, fsteps, errs) ==
    Join(<< <<"# CI Failure Analysis Request">>,
            <<>>,
            <<"## Workflow Information">>,
            <<"- Repository: ">> \o run.repository,
            <<"- Workflow: ">> \o run.name,
            <<"- Branch: ">> \o run.head_branch,
            <<"- Commit: ">> \o Slice(run.head_sha, 0, ShaLength),
            <<"- Status: ", run.conclusion>>,
            <<>>,
            <<"## Failed Jobs">> >>
         \o [n \in 1..Len(fjobs) |-> <<"- ">> \o fjobs[n]]
         \o << <<>>, <<"## Failed Steps">> >>
         \o [n \in 1..Len(fsteps) |-> <<"- ">> \o fsteps[n]]
         \o << <<>>, <<"## Error Details">> >>
         \o ErrorParts(errs, 1))

BuildAnalysisContext(run, fjobs, fsteps, errs) ==
    Join(<< <<"# CI Failure Analysis Request">>,
            <<>>,
            <<"## Workflow Information">>,
            <<"- Repository: ">> \o run.repository,
            <<"- Workflow: ">> \o run.name,
            <<"- Branch: ">> \o run.head_branch,
            <<"- Commit: ">> \o Slice(run.head_sha, 0, ShaLength),
            <<"- Status: ", run.conclusion>>,
            <<>>,
            <<"## Failed Jobs">> >>
         \o [n \in 1..Len(fjobs) |-> <<"- ">> \o fjobs[n]]
         \o << <<>>, <<"## Failed Steps">> >>
         \o [n \in 1..Len(fsteps) |-> <<"- ">> \o fsteps[n]]
         \o << <<>>, <<"## Error Details">> >>
         \o ErrorParts(Slice(errs, 0, ErrorLimit), 1))

-----------------------------------------------------------------------------
(* LLMAnalyzer._parse_llm_response                                          *)

(* One backtick character. *)
BT == "BACKTICK"
FENCE == <<BT, BT, BT>>
IsSpace(c) == c = SP \/ c = NL

(* str.strip() on a text that may hold newlines. *)
RECURSIVE StripText(_)
StripText(t) ==
    IF Len(t) > 0 /\ IsSpace(t[1]) THEN StripText(Tail(t))
    ELSE IF Len(t) > 0 /\ IsSpace(t[Len(t)]) THEN StripText(SubSeq(t, 1, Len(t) - 1))
    ELSE t

StartsWithFence(t) == Len(t) >= 3 /\ SubSeq(t, 1, 3) = FENCE

(* Faulty variant of StripFence: only the first line is dropped. *)
StripFenceKeepsLast(cleaned) ==
    LET ls == Split(cleaned)
    IN  Join(SubSeq(ls, 2, Len(ls)))

(* "\n".join(cleaned.split("\n")[1:-1]) *)
StripFence(cleaned) ==
    LET ls == Split(cleaned)
    IN  Join(SubSeq(ls, 2, Len(ls) - 1))

Clean(response) ==
    LET cleaned == StripText(response)
    IN  IF StartsWithFence(cleaned) THEN StripFence(cleaned) ELSE cleaned

(* JSON documents a reply can carry, each one token of the reply.  conf is   *)
(* the document's confidence in hundredths.                                  *)
J_FULL == "{\"summary\":\"S\",\"likely_cause\":\"C\",\"suggested_actions\":[\"A\"],\"confidence\":0.9}"
J_EMPTY == "{}"
J_HIGH == "{\"summary\":\"S\",\"confidence\":1.5}"
J_NEGATIVE == "{\"confidence\":-0.5}"
J_ZERO == "{\"summary\":\"S\",\"likely_cause\":\"C\",\"confidence\":0}"
J_NUMSTR == "{\"confidence\":\"0.7\"}"
J_NULLCONF == "{\"confidence\":null}"
J_TEXTCONF == "{\"confidence\":\"high\"}"
J_ARRAY == "[1]"
J_NUMBER == "42"

ObjectDocs == {J_FULL, J_EMPTY, J_HIGH, J_NEGATIVE, J_ZERO, J_NUMSTR,
               J_NULLCONF, J_TEXTCONF}
JsonDocs == ObjectDocs \cup {J_ARRAY, J_NUMBER}

(* The keys of a JSON object document. *)
DocKeys(doc) ==
    CASE doc = J_FULL -> {"summary", "likely_cause", "suggested_actions", "confidence"}
      [] doc = J_EMPTY -> {}
      [] doc = J_HIGH -> {"summary", "confidence"}
      [] doc = J_ZERO -> {"summary", "likely_cause", "confidence"}
      [] OTHER -> {"confidence"}

(* The value of the confidence key: its JSON type and, for a number or a     *)
(* numeric string, its value in hundredths.                                  *)
DocConfidence(doc) ==
    CASE doc = J_FULL -> [type |-> "number", value |-> 90]
      [] doc = J_HIGH -> [type |-> "number", value |-> 150]
      [] doc = J_NEGATIVE -> [type |-> "number", value |-> -50]
      [] doc = J_ZERO -> [type |-> "number", value |-> 0]
      [] doc = J_NUMSTR -> [type |-> "numeric string", value |-> 70]
      [] doc = J_NULLCONF -> [type |-> "null", value |-> 0]
      [] doc = J_TEXTCONF -> [type |-> "string", value |-> 0]
      [] OTHER -> [type |-> "absent", value |-> 0]

Return(v) == [kind |-> "return", exc |-> "", value |-> Some(v)]
Raise(e) == [kind |-> "raise", exc |-> e, value |-> None]

(* json.loads: surrounding whitespace is skipped; the rest must be exactly  *)
(* one JSON document.                                                       *)
JsonLoads(text) ==
    LET t == StripText(text)
    IN  IF Len(t) = 1 /\ t[1] \in JsonDocs THEN Return(t[1])
        ELSE Raise("JSONDecodeError")

(* data.get(key, default) for the three text fields. *)
GetField(doc, key, default) ==
    IF key \in DocKeys(doc)
    THEN CASE key = "summary" -> <<"S">>
           [] key = "likely_cause" -> <<"C">>
           [] key = "suggested_actions" -> << <<"A">> >>
    ELSE default

(* Faulty variant of CoerceConfidence: a missing confidence defaults to 0.0. *)
CoerceConfidenceZeroDefault(doc) ==
    LET c == DocConfidence(doc)
    IN  CASE c.type = "absent" -> Return(0)
          [] c.type \in {"number", "numeric string"} -> Return(c.value)
          [] c.type = "null" -> Raise("TypeError")
          [] c.type = "string" -> Raise("ValueError")

(* float(data.get("confidence", 0.5)) *)
CoerceConfidence(doc) ==
    LET c == DocConfidence(doc)
    IN  CASE c.type = "absent" -> Return(50)
          [] c.type \in {"number", "numeric string"} -> Return(c.value)
          [] c.type = "null" -> Raise("TypeError")
          [] c.type = "string" -> Raise("ValueError")

(* except (json.JSONDecodeError, KeyError) *)
Caught(exc) == exc \in {"JSONDecodeError", "KeyError"}

(* The body of the try block. *)
TryParse(run_id, fjobs, fsteps, errs, response) ==
    LET data == JsonLoads(Clean(response))
    IN  IF data.kind = "raise" THEN data
        ELSE IF data.value[1] \notin ObjectDocs THEN Raise("AttributeError")
        ELSE LET doc == data.value[1]
                 confidence == CoerceConfidence(doc)
             IN  IF confidence.kind = "raise" THEN confidence
                 ELSE Return([workflow_run_id |-> run_id,
                              summary |-> GetField(doc, "summary", <<"Analysis unavailable">>),
                              failed_jobs |-> fjobs,
                              failed_steps |-> fsteps,
                              error_contexts |-> errs,
                              likely_cause |-> GetField(doc, "likely_cause", <<"Unknown">>),
                              suggested_actions |-> GetField(doc, "suggested_actions", <<>>),
                              confidence |-> confidence.value[1]])

LikelyCauseLimit == 500

(* Faulty variant of Fallback: the likely cause is cut from the stripped reply. *)
FallbackFromCleaned(run_id, fjobs, fsteps, errs, response) ==
    [workflow_run_id |-> run_id,
     summary |-> <<"Failed to parse LLM response">>,
     failed_jobs |-> fjobs,
     failed_steps |-> fsteps,
     error_contexts |-> errs,
     likely_cause |-> Slice(StripText(response), 0, LikelyCauseLimit),
     suggested_actions |-> << <<"Review logs manually">> >>,
     confidence |-> 0]

(* The except block. *)
Fallback(run_id, fjobs, fsteps, errs, response) ==
    [workflow_run_id |-> run_id,
     summary |-> <<"Failed to parse LLM response">>,
     failed_jobs |-> fjobs,
     failed_steps |-> fsteps,
     error_contexts |-> errs,
     likely_cause |-> Slice(response, 0, LikelyCauseLimit),
     suggested_actions |-> << <<"Review logs manually">> >>,
     confidence |-> 0]

ParseLLMResponse(run_id, fjobs, fsteps, errs, response) ==
    LET r == TryParse(run_id, fjobs, fsteps, errs, response)
    IN  IF r.kind = "raise" /\ Caught(r.exc)
        THEN Return(Fallback(run_id, fjobs, fsteps, errs, response))
        ELSE r

-----------------------------------------------------------------------------
(* LLMAnalyzer.analyze_workflow_failure                                     *)

(* The loop over job.steps of one failed job, from step i on. *)
RECURSIVE FailedStepsOf(_, _)
FailedStepsOf(j, i) ==
    IF i > Len(j.steps) THEN <<>>
    ELSE (IF j.steps[i].conclusion = "failure"
          THEN <<j.name \o <<"/">> \o j.steps[i].name>>
          ELSE <<>>)
         \o FailedStepsOf(j, i + 1)

RECURSIVE ErrorsOf(_, _)
ErrorsOf(j, i) ==
    IF i > Len(j.steps) THEN <<>>
    ELSE (IF j.steps[i].conclusion = "failure"
          THEN ParseStepLogs(j.steps[i])
          ELSE <<>>)
         \o ErrorsOf(j, i + 1)

(* The loop over workflow_run.jobs, from job n on: the three lists it fills. *)
RECURSIVE Collect(_, _)
Collect(jobs, n) ==
    IF n > Len(jobs)
    THEN [failed_jobs |-> <<>>, failed_steps |-> <<>>, all_errors |-> <<>>]
    ELSE LET rest == Collect(jobs, n + 1)
             j == jobs[n]
         IN  IF j.conclusion = "failure"
             THEN [failed_jobs |-> <<j.name>> \o rest.failed_jobs,
                   failed_steps |-> FailedStepsOf(j, 1) \o rest.failed_steps,
                   all_errors |-> ErrorsOf(j, 1) \o rest.all_errors]
             ELSE rest

MaxRunSteps == 2
MaxOver == 2

LOG_ONE == Join(<< <<PY_PHRASE>>, <<SP, FRAME_PY>> >>)
LOG_THREE == Join(<< <<PY_PHRASE>>, <<SP, FRAME_GENERIC, ERR_PHRASE>>,
                     <<NPM_PHRASE, ERR_PHRASE>> >>)

(* The steps of a failed job: logs are attached by position, whatever the   *)
(* step's own conclusion.                                                   *)
StepChoices ==
    { [conclusion |-> "success", log_content |-> None],
      [conclusion |-> "success", log_content |-> Some(LOG_ONE)],
      [conclusion |-> "failure", log_content |-> Some(LOG_ONE)],
      [conclusion |-> "failure", log_content |-> Some(LOG_THREE)] }

MakeJob(name, conclusion, choices) ==
    [name |-> <<name>>,
     conclusion |-> conclusion,
     steps |-> [i \in 1..Len(choices) |->
                   [name |-> StepName(i),
                    conclusion |-> choices[i].conclusion,
                    log_content |-> choices[i].log_content]]]

FirstJobs ==
    { MakeJob("build", "failure", ch) : ch \in SeqsUpTo(StepChoices, MaxRunSteps) }
    \cup { MakeJob("build", "success", <<[conclusion |-> "success", log_content |-> None]>>) }

SECOND_JOB ==
    MakeJob("test", "failure", <<[conclusion |-> "failure", log_content |-> Some(LOG_ONE)]>>)

RunJobs == { <<j>> : j \in FirstJobs } \cup { <<j, SECOND_JOB>> : j \in FirstJobs }

MakeRun(jobs) ==
    [id |-> 1,
     repository |-> <<"owner/repo">>,
     name |-> <<"CI">>,
     head_branch |-> <<"main">>,
     head_sha |-> <<"0", "1", "2", "3", "4", "5", "6", "7", "8", "9">>,
     conclusion |-> "failure",
     jobs |-> jobs]

(* Replies of the reasoning service: a JSON document bare or in a fenced    *)
(* block, with or without surrounding whitespace; text that is no JSON; and *)
(* long text around the likely_cause limit.                                 *)
OOPS == "oops"
Surroundings == { [lead |-> <<>>, trail |-> <<>>], [lead |-> <<NL, SP>>, trail |-> <<SP, NL>>] }
FenceTags == { <<>>, <<"json">> }

BareReplies ==
    { w.lead \o <<d>> \o w.trail : w \in Surroundings, d \in JsonDocs }
FencedReplies ==
    { w.lead \o FENCE \o tag \o <<NL, d, NL>> \o FENCE \o w.trail :
          w \in Surroundings, tag \in FenceTags, d \in JsonDocs }
BrokenReplies ==
    { <<>>, <<SP>>, <<OOPS>>, <<OOPS, SP, J_FULL>>, <<J_FULL, J_FULL>>, FENCE,
      FENCE \o <<J_FULL>> \o FENCE, FENCE \o <<NL, J_FULL>>,
      FENCE \o <<NL, OOPS, NL>> \o FENCE }
LongReplies ==
    { lead \o [i \in 1..n |-> OOPS] :
          lead \in {<<>>, <<SP>>},
          n \in (LikelyCauseLimit - 1)..(LikelyCauseLimit + MaxOver) }

Replies == BareReplies \cup FencedReplies \cup BrokenReplies \cup LongReplies

(* analyze_workflow_failure up to the call of the reasoning service. *)
BuildContext ==
    /\ pc = "start"
    /\ \E jobs \in RunJobs :
        LET run == MakeRun(jobs)
            c == Collect(run.jobs, 1)
        IN  /\ workflow_run' = Some(run)
            /\ failed_jobs' = c.failed_jobs
            /\ failed_steps' = c.failed_steps
            /\ all_errors' = c.all_errors
            /\ context' = Some(BuildAnalysisContext(run, c.failed_jobs,
                                                    c.failed_steps, c.all_errors))
    /\ pc' = "query"
    /\ UNCHANGED <<segVars, parseVars, llm_response, outcome>>

(* _query_llm returns some text; _parse_llm_response interprets it. *)
InterpretReply ==
    /\ pc = "query"
    /\ \E reply \in Replies :
        /\ llm_response' = Some(reply)
        /\ outcome' = Some(ParseLLMResponse(workflow_run[1].id, failed_jobs,
                                            failed_steps, all_errors, reply))
    /\ pc' = "done"
    /\ UNCHANGED <<segVars, parseVars, workflow_run, failed_jobs, failed_steps,
                   all_errors, context>>

NextAnalyze == BuildContext \/ InterpretReply

Init ==
    /\ pc = "start"
    /\ job = None
    /\ logs = None
    /\ step = None
    /\ errors = <<>>
    /\ workflow_run = None
    /\ failed_jobs = <<>>
    /\ failed_steps = <<>>
    /\ all_errors = <<>>
    /\ context = None
    /\ llm_response = None
    /\ outcome = None

NextSeg == GetJob

SpecSeg == Init /\ [][NextSeg]_vars

InitParse ==
    /\ pc = "start"
    /\ IsParseInput(step)
    /\ errors = <<>>
    /\ job = None
    /\ logs = None
    /\ workflow_run = None
    /\ failed_jobs = <<>>
    /\ failed_steps = <<>>
    /\ all_errors = <<>>
    /\ context = None
    /\ llm_response = None
    /\ outcome = None

SpecParse == InitParse /\ [][NextParse]_vars

SpecAnalyze == Init /\ [][NextAnalyze]_vars

-----------------------------------------------------------------------------
(* Properties of the segmenter.                                             *)

Fetched == pc = "jobs" /\ logs # None
Steps == job[1].steps
LogLines == Split(logs[1])
MarkerIdx == {k \in 1..Len(LogLines) : IsStepMarker(LogLines[k])}
WithContent == {i \in 1..Len(Steps) : Steps[i].log_content # None}

(* The elements of a finite set of integers in ascending order. *)
Ascending(S) ==
    [k \in 1..Cardinality(S) |->
        CHOOSE i \in S : Cardinality({j \in S : j < i}) = k - 1]

RECURSIVE IsSubsequence(_, _)
IsSubsequence(a, b) ==
    IF Len(a) = 0 THEN TRUE
    ELSE IF Len(b) = 0 THEN FALSE
    ELSE IF a[1] = b[1] THEN IsSubsequence(Tail(a), Tail(b))
    ELSE IsSubsequence(a, Tail(b))

(* The lines of the segments of steps i..n, in step order. *)
RECURSIVE SegmentLines(_, _)
SegmentLines(steps, i) ==
    IF i > Len(steps) THEN <<>>
    ELSE (IF steps[i].log_content = None THEN <<>>
          ELSE Split(steps[i].log_content[1]))
         \o SegmentLines(steps, i + 1)

FirstMarker == CHOOSE k \in MarkerIdx : \A m \in MarkerIdx : k <= m

(* C4: with N marker lines at most N steps receive log content; the lines of *)
(* the segments, taken in step order, occur in that order among the lines of *)
(* the log from the first marker on (so none of them precedes it); with no   *)
(* marker no step receives content.                                          *)
C4_SegmentsBounded ==
    Fetched =>
        /\ Cardinality(WithContent) <= Cardinality(MarkerIdx)
        /\ MarkerIdx = {} => WithContent = {}
        /\ MarkerIdx # {} =>
              IsSubsequence(SegmentLines(Steps, 1),
                            SubSeq(LogLines, FirstMarker, Len(LogLines)))

C4_Witness ==
    /\ Fetched
    /\ Cardinality(MarkerIdx) = 2
    /\ FirstMarker > 1
    /\ Cardinality(WithContent) = 2

(* C9 as stated: every step whose conclusion is not "failure" has no log     *)
(* content, also inside a job whose conclusion is "failure".                 *)
C9_OnlyFailedSteps ==
    pc = "jobs" =>
        \A i \in 1..Len(Steps) :
            Steps[i].conclusion # "failure" => Steps[i].log_content = None

(* C9 amended: log content is attached only inside jobs whose conclusion is  *)
(* "failure"; the steps of any other job have no log content.                *)
C9_OnlyFailedJobs ==
    pc = "jobs" =>
        (job[1].conclusion # "failure" =>
            \A i \in 1..Len(Steps) : Steps[i].log_content = None)

C9_Witness ==
    /\ pc = "jobs"
    /\ job[1].conclusion # "failure"
    /\ Len(Steps) = 2
    /\ Steps[1].conclusion = "failure"

(* 1-based indices of the marker lines of the log, in order. *)
Markers == Ascending(MarkerIdx)

(* The lines lo..hi of the log, joined as the code joins a buffer. *)
LogSegment(lo, hi) == Some(Join(SubSeq(LogLines, lo, hi)))

(* C12 as stated: in a job with at least one step, the segment of the k-th  *)
(* step is the lines from the k-th marker line up to, not including, the    *)
(* (k+1)-th marker line, or to the end of the log for the last marker,      *)
(* whatever the number of markers and of steps.                             *)
C12_SegmentPerMarker ==
    (Fetched /\ Len(Steps) >= 1) =>
        LET ms == Markers
        IN  \A k \in 1..Min(Len(Steps), Len(ms)) :
                Steps[k].log_content =
                    LogSegment(ms[k], IF k < Len(ms) THEN ms[k + 1] - 1
                                      ELSE Len(LogLines))

(* C12 amended: with n steps and m marker lines only the first min(m, n)    *)
(* markers are boundaries.  The segment of step k < min(m, n) is the lines  *)
(* from the k-th marker up to, not including, the (k+1)-th; the segment of  *)
(* step min(m, n) runs from its marker to the end of the log, later markers *)
(* and their output included; steps after min(m, n) have no content.        *)
C12_SegmentPerRecognisedMarker ==
    (Fetched /\ Len(Steps) >= 1) =>
        LET ms == Markers
            n == Min(Len(Steps), Len(ms))
        IN  /\ \A k \in 1..n :
                  Steps[k].log_content =
                      LogSegment(ms[k], IF k < n THEN ms[k + 1] - 1
                                        ELSE Len(LogLines))
            /\ \A k \in (n + 1)..Len(Steps) : Steps[k].log_content = None

(* Two steps and three marker lines: the second step's segment holds the    *)
(* third marker line.                                                       *)
C12_Witness ==
    /\ Fetched
    /\ Len(Steps) = 2
    /\ Len(Markers) = 3
    /\ Steps[1].log_content = LogSegment(Markers[1], Markers[2] - 1)
    /\ Steps[2].log_content = LogSegment(Markers[2], Len(LogLines))
    /\ Markers[3] > Markers[2]

-----------------------------------------------------------------------------
(* Properties of the error extractor.                                       *)

Parsed ==
    /\ pc = "parsed"
    /\ step[1].conclusion = "failure"
    /\ step[1].log_content # None
    /\ step[1].log_content # Some(<<>>)

PLines == Split(step[1].log_content[1])

Lowest(S) == CHOOSE i \in S : \A j \in S : i <= j

(* 1-based indices of the lines that match at least one signature, in order. *)
MatchingLines(lines) == Ascending({i \in 1..Len(lines) : MatchesAnyPattern(lines[i])})

SpecificTypes == {"python_error", "test_failure", "npm_error", "typescript_error"}

(* C6: the records correspond one-to-one, in line order, to the lines that   *)
(* match a signature; each record's type is the first signature of the      *)
(* table that matches its line, and is not the generic type when a specific *)
(* signature matches the line too.                                          *)
C6_OneRecordPerMatchingLine ==
    Parsed =>
        LET lines == PLines
            matches == MatchingLines(lines)
        IN  /\ Len(errors) = Len(matches)
            /\ \A k \in 1..Len(errors) :
                  LET line == lines[matches[k]]
                      e == errors[k]
                  IN  /\ \E p \in 1..Len(ERROR_PATTERNS) :
                            /\ e.error_type = ERROR_PATTERNS[p]
                            /\ LineMatches(line, ERROR_PATTERNS[p])
                            /\ \A q \in 1..(p - 1) : ~LineMatches(line, ERROR_PATTERNS[q])
                      /\ \E a \in 1..Len(line), b \in 1..Len(line) :
                            /\ TokenMatches(line[a], e.error_type)
                            /\ e.error_message = SubSeq(line, a, b)
                      /\ (\E t \in SpecificTypes : LineMatches(line, t))
                            => e.error_type # "generic_error"

(* Three lines match; the second was consumed as a stack frame by the       *)
(* look-ahead of the first, and the third matches both a specific and the   *)
(* generic signature.                                                       *)
C6_Witness ==
    /\ Parsed
    /\ Len(errors) = 3
    /\ errors[1].error_type = "python_error"
    /\ Len(errors[1].stack_trace) = 1
    /\ IsStackFrame(PLines[MatchingLines(PLines)[2]])
    /\ LineMatches(PLines[MatchingLines(PLines)[3]], "npm_error")
    /\ LineMatches(PLines[MatchingLines(PLines)[3]], "generic_error")

(* The 1-based indices the look-ahead of a match at line i visits: offsets  *)
(* 1..reach, up to and including the first blank or matching line.          *)
Visited(lines, i, reach) ==
    {j \in (i + 1)..Min(i + reach, Len(lines)) :
        \A m \in (i + 1)..(j - 1) :
            ~IsBlank(lines[m]) /\ ~MatchesAnyPattern(lines[m])}

FramesIn(lines, S) == {j \in S : IsStackFrame(lines[j])}

PrimaryIs(e, line) ==
    /\ e.file_path = Some(FrameFile(FrameToken(line)))
    /\ e.line_number = Some(FrameLine(FrameToken(line)))

(* C5 as stated: whenever a frame-shaped line lies at an offset in 1..20    *)
(* after the match, the record's file path and line number are those of the *)
(* first such line, and stack_trace lists frames in log order.              *)
C5_FirstFrameWithin20 ==
    Parsed =>
        LET lines == PLines
            matches == MatchingLines(lines)
        IN  \A k \in 1..Len(errors) :
                LET i == matches[k]
                    F == Ascending(FramesIn(lines, (i + 1)..Min(i + 20, Len(lines))))
                IN  Len(F) > 0 =>
                        /\ PrimaryIs(errors[k], lines[F[1]])
                        /\ IsSubsequence(errors[k].stack_trace,
                                         [n \in 1..Len(F) |-> Strip(lines[F[n]])])

(* C5 amended: whenever a frame-shaped line lies at an offset d in 1..19    *)
(* after the match with no blank or signature-matching line at offsets      *)
(* 1..d-1, the record's file path and line number are those of the first    *)
(* such line, and stack_trace is the list, in log order, of the frame-shaped *)
(* lines the look-ahead visits.                                             *)
C5_FirstFrameVisited ==
    Parsed =>
        LET lines == PLines
            matches == MatchingLines(lines)
        IN  \A k \in 1..Len(errors) :
                LET i == matches[k]
                    F == Ascending(FramesIn(lines, Visited(lines, i, 19)))
                IN  Len(F) > 0 =>
                        /\ PrimaryIs(errors[k], lines[F[1]])
                        /\ errors[k].stack_trace = [n \in 1..Len(F) |-> Strip(lines[F[n]])]

(* A match followed by plain lines and two different frames, the second at  *)
(* the last offset the look-ahead visits.                                   *)
C5_Witness ==
    /\ Parsed
    /\ Len(errors) = 1
    /\ MatchesAnyPattern(PLines[1])
    /\ FramesIn(PLines, Visited(PLines, 1, 19)) = {19, 20}
    /\ errors[1].file_path = Some(FrameFile(FrameToken(PLines[19])))
    /\ errors[1].stack_trace[1] # errors[1].stack_trace[2]

(* The non-blank lines, stripped, of the lines lo..hi (1-based, clamped to  *)
(* the log) of a log.                                                       *)
WindowOf(lines, lo, hi) ==
    StripNonBlank(SubSeq(lines, Max(1, lo), Min(Len(lines), hi)))

-----
(* Properties of the context builder and the response interpreter.          *)

Done == pc = "done"
Reply == llm_response[1]
Returned == Done /\ outcome[1].kind = "return"
Result == outcome[1].value[1]

(* The reply is no JSON document, also after the fence is removed. *)
ParseFails == JsonLoads(Clean(Reply)).kind = "raise"

(* C1: whatever the reply, _parse_llm_response returns an AnalysisResult    *)
(* and raises nothing.                                                      *)
C1_NeverRaises == Done => outcome[1].kind = "return"

(* C2: every AnalysisResult returned has its confidence within [0.0, 1.0]   *)
(* (0..100 hundredths).                                                     *)
C2_ConfidenceInRange == Returned => (0 <= Result.confidence /\ Result.confidence <= 100)

IsErrorHeader(line) == Len(line) > 0 /\ line[1] = "### Error "

(* The number of signature-matching lines in the logs of the failed steps   *)
(* of the failed jobs of the run.                                           *)
RECURSIVE MatchCount(_, _)
MatchCount(js, n) ==
    IF n > Len(js) THEN 0
    ELSE LET S == IF js[n].conclusion = "failure"
                  THEN {i \in 1..Len(js[n].steps) :
                           /\ js[n].steps[i].conclusion = "failure"
                           /\ js[n].steps[i].log_content # None}
                  ELSE {}
             count(i) ==
                 LET ls == Split(js[n].steps[i].log_content[1])
                 IN  Cardinality({m \in 1..Len(ls) : MatchesAnyPattern(ls[m])})
             RECURSIVE sum(_)
             sum(T) == IF T = {} THEN 0
                       ELSE LET i == CHOOSE x \in T : TRUE
                            IN  count(i) + sum(T \ {i})
         IN  sum(S) + MatchCount(js, n + 1)

(* C3: the context document embeds the first min(n, 5) error records, in    *)
(* extraction order, and no others, while the AnalysisResult returned       *)
(* carries all n records in the same order.                                 *)
C3_ContextCappedResultFull ==
    pc \in {"query", "done"} =>
        LET lines == Split(context[1])
            headers == Ascending({h \in 1..Len(lines) : IsErrorHeader(lines[h])})
        IN  /\ Len(all_errors) = MatchCount(workflow_run[1].jobs, 1)
            /\ Len(headers) = Min(Len(all_errors), 5)
            /\ \A k \in 1..Len(headers) :
                  LET h == headers[k]
                      e == all_errors[k]
                  IN  /\ lines[h] = <<"### Error ", ToString(k)>>
                      /\ lines[h + 1] = <<"Type: ", e.error_type>>
                      /\ lines[h + 2] = <<"Message: ">> \o e.error_message
                      /\ e.file_path # None =>
                            /\ lines[h + 3][1] = "Location: "
                            /\ lines[h + 3][2] = e.file_path[1]
            /\ Returned => Result.error_contexts = all_errors

(* Seven records were extracted; five are embedded and the result of a      *)
(* parsed reply carries all seven.                                          *)
C3_Witness ==
    /\ Returned
    /\ Len(all_errors) = 7
    /\ Cardinality({h \in 1..Len(context[1]) : context[1][h] = "### Error "}) = 5
    /\ Len(Result.error_contexts) = 7
    /\ Result.summary = <<"S">>

(* C7: a reply that fails JSON parsing yields the fallback result: the      *)
(* fixed summary, the first 500 characters of the raw reply as likely       *)
(* cause, the single action, confidence 0.0, and the failed jobs, failed    *)
(* steps and error records passed through.                                  *)
C7_FallbackResult ==
    (Done /\ ParseFails) =>
        /\ outcome[1].kind = "return"
        /\ Result.summary = <<"Failed to parse LLM response">>
        /\ Len(Result.likely_cause) = Min(Len(Reply), 500)
        /\ \A i \in 1..Len(Result.likely_cause) : Result.likely_cause[i] = Reply[i]
        /\ Result.suggested_actions = << <<"Review logs manually">> >>
        /\ Result.confidence = 0
        /\ Result.failed_jobs = failed_jobs
        /\ Result.failed_steps = failed_steps
        /\ Result.error_contexts = all_errors

(* A reply of more than 500 characters that begins with whitespace, for a   *)
(* run with failed steps and errors.                                        *)
C7_Witness ==
    /\ Done
    /\ ParseFails
    /\ Len(Reply) > 500
    /\ Reply[1] = SP
    /\ Len(all_errors) > 0
    /\ Len(failed_steps) > 1

(* The JSON object documents d for which the reply is d inside a fenced     *)
(* block, with or without a language tag and surrounding whitespace.        *)
FencedObjects ==
    {d \in ObjectDocs :
        \E tag \in FenceTags :
            StripText(Reply) = FENCE \o tag \o <<NL, d, NL>> \o FENCE}

(* C8: a JSON object inside a fenced block is interpreted exactly as the    *)
(* same JSON object given bare.                                             *)
C8_FenceTransparent ==
    Done =>
        \A d \in FencedObjects :
            outcome[1] = ParseLLMResponse(workflow_run[1].id, failed_jobs,
                                          failed_steps, all_errors, <<d>>)

C8_Witness ==
    /\ Returned
    /\ FencedObjects = {J_FULL}
    /\ Reply[1] = NL
    /\ Result.summary = <<"S">>
    /\ Result.confidence = 90

(* C10 as stated: a result has confidence 0.0 only when the reply could not *)
(* be parsed and the fallback was taken.                                    *)
C10_ZeroOnlyOnFallback ==
    (Returned /\ Result.confidence = 0) => ParseFails

(* C10 amended: a result has confidence 0.0 only when the fallback was      *)
(* taken or the parsed reply's own confidence field is zero; a parsed reply *)
(* without a confidence field does not get 0.0.                             *)
C10_ZeroOnlyOnFallbackOrZeroField ==
    (Returned /\ Result.confidence = 0) =>
        \/ ParseFails
        \/ \E d \in ObjectDocs :
              /\ StripText(Clean(Reply)) = <<d>>
              /\ "confidence" \in DocKeys(d)
              /\ DocConfidence(d).type \in {"number", "numeric string"}
              /\ DocConfidence(d).value = 0

C10_Witness ==
    /\ Returned
    /\ ~ParseFails
    /\ Result.confidence = 0
    /\ Result.summary = <<"S">>

=============================================================================
